---- MODULE Spec2Model ----
(***************************************************************************)
(* The Fashion-MNIST tutorial pipeline of notebook/Fashion-MNIST.ipynb:    *)
(* load_fmnist (the IDX reader), the two DataLoaders (batch_size=4,        *)
(* shuffle=True, num_workers=2), the training loop and the evaluation      *)
(* cell.  Each component has its own specification over the shared         *)
(* variables: SpecReader, SpecLoader, SpecTrain / SpecTrainFair, SpecEval, *)
(* SpecForward.                                                            *)
(* The network arithmetic (convolutions, gradients, the SGD rule) is       *)
(* abstract: a loss is a value of LossValues, a prediction a class index,  *)
(* the parameters a version number that optimizer.step() advances.         *)
(***************************************************************************)
EXTENDS Integers, Sequences, FiniteSets, TLC

VARIABLES
    \* ---- load_fmnist
    lb_bytes,            \* length of the decompressed label stream
    img_bytes,           \* length of the decompressed image stream
    readerPc,            \* "labels" | "images" | "returned" | "raised"
    labels_len,          \* len(labels) after np.frombuffer(..., offset=8)
    images_shape,        \* <<rows, cols>> of the reshaped image array, <<>> if none
    reader_raised,       \* "" or the exception load_fmnist raised
    \* ---- DataLoader (one iterator of it at a time)
    n_samples,           \* len(dataset)
    batch_size,          \* DataLoader(batch_size=...)
    loaderPc,            \* "idle" | "iterating" | "exhausted"
    loader_epoch,        \* iterators created so far
    sample_iter,         \* batches of indices the batch sampler has not handed out
    index_queue,         \* <<idx, indices>> tasks waiting for a worker
    worker_task,         \* worker -> the task it holds, <<>> when it waits
    data_queue,          \* <<idx, batch>> results waiting for __next__
    reorder_dict,        \* set of <<idx, batch>> received out of order
    send_idx,
    rcvd_idx,
    batches_outstanding,
    yielded,             \* history: the batches __next__ returned this epoch
    reordered,           \* history: a batch of this epoch arrived ahead of its turn
    \* ---- training loop
    nb_epochs,
    minibatches,         \* the report interval
    train_batches,       \* len(train_loader): batches per epoch
    trainPc,             \* position in the loop body
    epoch,
    i,                   \* enumerate(train_loader, 0) index of the current batch
    running_loss,
    loss,                \* loss.data[0] of the current batch
    params,              \* version of cnn's parameters (optimizer steps applied)
    grad,                \* backward passes accumulated in .grad since zero_grad()
    outputs,             \* parameter version the current outputs were computed from
    printed,             \* history: the lines the loop printed
    epoch_losses,        \* history: losses of the batches of the current epoch
    batches_seen,        \* history: batches the loop body has completed
    complete_printed,    \* history: 'Training Complete!' lines printed
    batch_ops,           \* history: the statements run on the current batch, in order
    \* ---- evaluation cell
    test_loader,         \* batches (sequences of true labels) not yet yielded
    test_labels,         \* history: every label of the split, in yield order
    evalPc,              \* "loop" | "classes" | "done" | "raised"
    eval_raised,         \* "" or the exception, with the source line that raised it
    correct,
    total,
    correct_class,
    total_class,
    class_i,             \* index of the per-class report loop
    eval_printed,        \* history: the overall line and the per-class lines printed
    all_zero,            \* history: every label predicted so far was class 0
    \* ---- CNN.forward
    fwdPc,               \* the stage of forward that runs next, "returned" | "raised"
    fwd_shape,           \* x.size()
    fwd_x,               \* the values of a few units of x
    fwd_stages,          \* history: the stages applied to x, in order
    fwd_scores           \* history: what self.fc2 computed

readerVars == <<lb_bytes, img_bytes, readerPc, labels_len, images_shape, reader_raised>>
loaderVars == <<n_samples, batch_size, loaderPc, loader_epoch, sample_iter, index_queue,
                worker_task, data_queue, reorder_dict, send_idx, rcvd_idx,
                batches_outstanding, yielded, reordered>>
trainVars  == <<nb_epochs, minibatches, train_batches, trainPc, epoch, i, running_loss,
                loss, grad, outputs, printed, epoch_losses, batches_seen,
                complete_printed, batch_ops>>
evalVars   == <<test_loader, test_labels, evalPc, eval_raised, correct, total,
                correct_class, total_class, class_i, eval_printed, all_zero>>
forwardVars == <<fwdPc, fwd_shape, fwd_x, fwd_stages, fwd_scores>>
vars == <<readerVars, loaderVars, trainVars, evalVars, forwardVars, params>>

(***************************************************************************)
(* Bounds of the model.                                                    *)
(***************************************************************************)
MaxRecords == 2        \* label/image records in the streams load_fmnist reads
MaxSlack == 3          \* bytes an image stream may miss or exceed around a record boundary
MaxSamples == 4        \* samples of the dataset a DataLoader iterates
MaxBatch == 4          \* batch sizes tried for the DataLoader
MaxLoaderEpochs == 2   \* iterators created from one DataLoader
MaxEpochs == 2         \* nb_epochs tried
MaxInterval == 2       \* report intervals tried
MaxTrain == 9          \* samples of the training split
MaxTest == 5           \* samples of an enumerated test split
MaxLabel == 1          \* labels (and predictions) of an enumerated test split
MaxTrained == 1        \* parameter versions a classifier under evaluation may have
MaxForwardBatch == 2   \* images in a batch given to CNN.forward
MaxUnits == 2          \* units of x whose values are followed through forward
MaxActivation == 1     \* a unit's value lies in -MaxActivation .. MaxActivation

(***************************************************************************)
(* Program constants.                                                      *)
(***************************************************************************)
LabelHeader == 8       \* offset=8
ImageHeader == 16      \* offset=16
RecordSize == 784      \* reshape(len(labels), 784)
BatchSize == 4         \* batch_size=4
NumWorkers == 2        \* num_workers=2
PrefetchFactor == 2    \* batches primed per worker
EvalRange == 4         \* for i in range(4)
NumClasses == 10       \* range(10)
ImageSide == 28        \* reshape(-1, 1, 28, 28)
KernelSize == 5        \* nn.Conv2d(1, 10, 5), nn.Conv2d(10, 20, 5)
PoolSize == 2          \* nn.MaxPool2d(2, 2)
Conv1Out == 10         \* nn.Conv2d(1, 10, 5)
Conv2Out == 20         \* nn.Conv2d(10, 20, 5)
Fc1In == 320           \* nn.Linear(320, 50)
Fc1Out == 50           \* nn.Linear(320, 50)
Fc2Out == 10           \* nn.Linear(50, 10)

(***************************************************************************)
(* Helpers.                                                                *)
(***************************************************************************)
Range(s) == {s[k] : k \in DOMAIN s}

RECURSIVE Concat(_)
Concat(ss) == IF ss = <<>> THEN <<>> ELSE Head(ss) \o Concat(Tail(ss))

Min(a, b) == IF a < b THEN a ELSE b

CeilDiv(a, b) == (a + b - 1) \div b

(***************************************************************************)
(* load_fmnist.  Only the stream lengths decide what it does: every byte   *)
(* is a valid uint8.                                                       *)
(***************************************************************************)
\* np.frombuffer(buf, dtype=np.uint8, offset=o): the element count, or -1 for the
\* ValueError numpy raises when the offset lies beyond the buffer.
FromBuffer(len, offset) == IF offset > len THEN -1 ELSE len - offset

\* Faulty variant, reshape(-1, 784): the row count is inferred from the image stream.
ReshapeInferRows(size, rows, cols) == size % cols = 0

\* ndarray.reshape(rows, cols) succeeds exactly when the sizes agree.
ReshapeOk(size, rows, cols) == size = rows * cols

ReadLabels ==
    /\ readerPc = "labels"
    /\ LET n == FromBuffer(lb_bytes, LabelHeader) IN
         IF n < 0
           THEN /\ readerPc' = "raised"
                /\ reader_raised' = "ValueError"
                /\ UNCHANGED labels_len
           ELSE /\ readerPc' = "images"
                /\ labels_len' = n
                /\ UNCHANGED reader_raised
    /\ UNCHANGED <<lb_bytes, img_bytes, images_shape>>
    /\ UNCHANGED <<loaderVars, trainVars, evalVars, forwardVars, params>>

ReadImages ==
    /\ readerPc = "images"
    /\ LET n == FromBuffer(img_bytes, ImageHeader) IN
         IF n < 0 \/ ~ReshapeOk(n, labels_len, RecordSize)
           THEN /\ readerPc' = "raised"
                /\ reader_raised' = "ValueError"
                /\ UNCHANGED images_shape
           ELSE /\ readerPc' = "returned"
                /\ images_shape' = <<labels_len, RecordSize>>
                /\ UNCHANGED reader_raised
    /\ UNCHANGED <<lb_bytes, img_bytes, labels_len>>
    /\ UNCHANGED <<loaderVars, trainVars, evalVars, forwardVars, params>>

\* Image stream lengths tried: within MaxSlack bytes of a record boundary, and
\* the lengths shorter than the header.
ImageLengths ==
    (0 .. ImageHeader) \cup
    {ImageHeader + k * RecordSize + d :
        k \in 0 .. MaxRecords + 1, d \in -MaxSlack .. MaxSlack}

InitReader ==
    /\ lb_bytes \in 0 .. LabelHeader + MaxRecords
    /\ img_bytes \in {l \in ImageLengths : l >= 0}
    /\ readerPc = "labels"
    /\ labels_len = 0
    /\ images_shape = <<>>
    /\ reader_raised = ""

IdleReader ==
    /\ lb_bytes = 0
    /\ img_bytes = 0
    /\ readerPc = "off"
    /\ labels_len = 0
    /\ images_shape = <<>>
    /\ reader_raised = ""

NextReader == ReadLabels \/ ReadImages

(***************************************************************************)
(* DataLoader(dataset, batch_size, shuffle=True, num_workers=2).  The      *)
(* notebook only constructs and iterates it; what an iterator does is the  *)
(* library's: a RandomSampler permutation cut into batches by the          *)
(* BatchSampler (drop_last=False), handed to the workers through           *)
(* index_queue, and returned by __next__ in batch order, out-of-order      *)
(* results waiting in reorder_dict.  A sample is named by its index.       *)
(***************************************************************************)
Workers == 1 .. NumWorkers

\* Faulty variant, sampling with replacement: any sequence of n indices.
RandomSamplerWithReplacement(n) == [1 .. n -> 0 .. n - 1]

\* shuffle=True: RandomSampler yields a permutation of range(len(dataset)).
RandomSampler(n) ==
    {p \in [1 .. n -> 0 .. n - 1] : \A a, b \in 1 .. n : a # b => p[a] # p[b]}

\* Faulty variant, drop_last=True: an incomplete last batch is not yielded.
BatchSamplerDropLast(order, b) ==
    [k \in 1 .. (Len(order) \div b) |-> SubSeq(order, (k - 1) * b + 1, k * b)]

\* BatchSampler(sampler, batch_size, drop_last=False): consecutive slices of
\* batch_size indices, the last one holding what is left.
BatchSampler(order, b) ==
    [k \in 1 .. CeilDiv(Len(order), b) |->
        SubSeq(order, (k - 1) * b + 1, Min(k * b, Len(order)))]

\* The iterator's sending side, as a record.
Sender == [sample_iter |-> sample_iter, index_queue |-> index_queue,
           batches_outstanding |-> batches_outstanding, send_idx |-> send_idx]

\* _put_indices: hand the next batch of indices, if any, to the workers.
PutIndices(s) ==
    IF s.sample_iter = <<>>
      THEN s
      ELSE [sample_iter |-> Tail(s.sample_iter),
            index_queue |-> Append(s.index_queue, <<s.send_idx, Head(s.sample_iter)>>),
            batches_outstanding |-> s.batches_outstanding + 1,
            send_idx |-> s.send_idx + 1]

RECURSIVE Prime(_, _)
Prime(s, k) == IF k = 0 THEN s ELSE Prime(PutIndices(s), k - 1)

SetSender(s) ==
    /\ sample_iter' = s.sample_iter
    /\ index_queue' = s.index_queue
    /\ batches_outstanding' = s.batches_outstanding
    /\ send_idx' = s.send_idx

\* iter(loader): a fresh permutation, and 2 * num_workers batches primed.
LoaderIter ==
    /\ loaderPc \in {"idle", "exhausted"}
    /\ loader_epoch < MaxLoaderEpochs
    /\ \E order \in RandomSampler(n_samples) :
         SetSender(Prime([sample_iter |-> BatchSampler(order, batch_size),
                          index_queue |-> <<>>,
                          batches_outstanding |-> 0,
                          send_idx |-> 0],
                         PrefetchFactor * NumWorkers))
    /\ loaderPc' = "iterating"
    /\ loader_epoch' = loader_epoch + 1
    /\ worker_task' = [w \in Workers |-> <<>>]
    /\ data_queue' = <<>>
    /\ reorder_dict' = {}
    /\ rcvd_idx' = 0
    /\ yielded' = <<>>
    /\ reordered' = FALSE
    /\ UNCHANGED <<n_samples, batch_size>>
    /\ UNCHANGED <<readerVars, trainVars, evalVars, forwardVars, params>>

\* _worker_loop: r = index_queue.get()
WorkerGet(w) ==
    /\ loaderPc = "iterating"
    /\ worker_task[w] = <<>>
    /\ index_queue # <<>>
    /\ worker_task' = [worker_task EXCEPT ![w] = Head(index_queue)]
    /\ index_queue' = Tail(index_queue)
    /\ UNCHANGED <<n_samples, batch_size, loaderPc, loader_epoch, sample_iter, data_queue,
                   reorder_dict, send_idx, rcvd_idx, batches_outstanding, yielded,
                   reordered>>
    /\ UNCHANGED <<readerVars, trainVars, evalVars, forwardVars, params>>

\* _worker_loop: data_queue.put((idx, collate_fn([dataset[i] for i in batch_indices])))
WorkerPut(w) ==
    /\ loaderPc = "iterating"
    /\ worker_task[w] # <<>>
    /\ data_queue' = Append(data_queue, worker_task[w])
    /\ worker_task' = [worker_task EXCEPT ![w] = <<>>]
    /\ UNCHANGED <<n_samples, batch_size, loaderPc, loader_epoch, sample_iter, index_queue,
                   reorder_dict, send_idx, rcvd_idx, batches_outstanding, yielded,
                   reordered>>
    /\ UNCHANGED <<readerVars, trainVars, evalVars, forwardVars, params>>

\* _process_next_batch: count the batch as received, refill, return it.
ProcessNextBatch(batch, s) ==
    /\ rcvd_idx' = rcvd_idx + 1
    /\ SetSender(PutIndices(s))
    /\ yielded' = Append(yielded, batch)

\* __next__, the batch is already in reorder_dict.
NextFromReorder ==
    /\ loaderPc = "iterating"
    /\ \E r \in reorder_dict :
         /\ r[1] = rcvd_idx
         /\ reorder_dict' = reorder_dict \ {r}
         /\ ProcessNextBatch(r[2], Sender)
    /\ UNCHANGED <<n_samples, batch_size, loaderPc, loader_epoch, worker_task, data_queue,
                   reordered>>
    /\ UNCHANGED <<readerVars, trainVars, evalVars, forwardVars, params>>

\* __next__, nothing outstanding: StopIteration.
NextStop ==
    /\ loaderPc = "iterating"
    /\ ~\E r \in reorder_dict : r[1] = rcvd_idx
    /\ batches_outstanding = 0
    /\ loaderPc' = "exhausted"
    /\ UNCHANGED <<n_samples, batch_size, loader_epoch, sample_iter, index_queue, worker_task,
                   data_queue, reorder_dict, send_idx, rcvd_idx, batches_outstanding, yielded,
                   reordered>>
    /\ UNCHANGED <<readerVars, trainVars, evalVars, forwardVars, params>>

\* __next__, one turn of its while loop: idx, batch = data_queue.get(); a batch
\* that is not the next one is stored, the next one is returned.
NextGet ==
    /\ loaderPc = "iterating"
    /\ ~\E r \in reorder_dict : r[1] = rcvd_idx
    /\ batches_outstanding > 0
    /\ data_queue # <<>>
    /\ data_queue' = Tail(data_queue)
    /\ LET got == Head(data_queue)
           s == [Sender EXCEPT !.batches_outstanding = batches_outstanding - 1] IN
         IF got[1] # rcvd_idx
           THEN /\ reorder_dict' = reorder_dict \cup {got}
                /\ SetSender(s)
                /\ reordered' = TRUE
                /\ UNCHANGED <<rcvd_idx, yielded>>
           ELSE /\ ProcessNextBatch(got[2], s)
                /\ UNCHANGED <<reorder_dict, reordered>>
    /\ UNCHANGED <<n_samples, batch_size, loaderPc, loader_epoch, worker_task>>
    /\ UNCHANGED <<readerVars, trainVars, evalVars, forwardVars, params>>

InitLoader ==
    /\ n_samples \in 1 .. MaxSamples
    /\ batch_size \in 1 .. MaxBatch
    /\ loaderPc = "idle"
    /\ loader_epoch = 0
    /\ sample_iter = <<>>
    /\ index_queue = <<>>
    /\ worker_task = [w \in Workers |-> <<>>]
    /\ data_queue = <<>>
    /\ reorder_dict = {}
    /\ send_idx = 0
    /\ rcvd_idx = 0
    /\ batches_outstanding = 0
    /\ yielded = <<>>
    /\ reordered = FALSE

IdleLoader ==
    /\ n_samples = 0
    /\ batch_size = BatchSize
    /\ loaderPc = "off"
    /\ loader_epoch = 0
    /\ sample_iter = <<>>
    /\ index_queue = <<>>
    /\ worker_task = [w \in Workers |-> <<>>]
    /\ data_queue = <<>>
    /\ reorder_dict = {}
    /\ send_idx = 0
    /\ rcvd_idx = 0
    /\ batches_outstanding = 0
    /\ yielded = <<>>
    /\ reordered = FALSE

NextLoader ==
    \/ LoaderIter
    \/ \E w \in Workers : WorkerGet(w)
    \/ \E w \in Workers : WorkerPut(w)
    \/ NextFromReorder
    \/ NextStop
    \/ NextGet

(***************************************************************************)
(* The training loop (cell 'Train Model').  A loss is a float: a finite    *)
(* value or NaN, which addition and division propagate.                    *)
(***************************************************************************)
NaN == -1

LossValues == {1, 2, NaN}

\* float addition
FAdd(a, b) == IF a = NaN \/ b = NaN THEN NaN ELSE a + b

\* float division, kept exact: <<numerator, denominator>>
FDiv(a, b) == IF a = NaN THEN <<NaN, 1>> ELSE <<a, b>>

\* Faulty variant, the report test fires on i % minibatches == 0.
ReportDueAtZero(idx, interval) == idx % interval = 0

\* if i%minibatches == minibatches-1
ReportDue(idx, interval) == idx % interval = interval - 1

\* Faulty variant, the loop stops at the first non-finite loss.
EpochContinuesUntilNaN(idx, n) == idx + 1 < n /\ loss # NaN

\* for i, data in enumerate(train_loader, 0): another batch follows batch idx
BatchFollows(idx, n) == idx + 1 < n

\* for epoch in range(nb_epochs): running_loss = 0.0
ForEpoch ==
    /\ trainPc = "for_epoch"
    /\ IF epoch + 1 < nb_epochs
         THEN /\ epoch' = epoch + 1
              /\ running_loss' = 0
              /\ i' = -1
              /\ epoch_losses' = <<>>
              /\ trainPc' = "for_batch"
         ELSE /\ trainPc' = "complete"
              /\ UNCHANGED <<epoch, running_loss, i, epoch_losses>>
    /\ UNCHANGED batch_ops
    /\ UNCHANGED <<nb_epochs, minibatches, train_batches, loss, grad, outputs, printed,
                   batches_seen, complete_printed, params>>
    /\ UNCHANGED <<readerVars, loaderVars, evalVars, forwardVars>>

\* for i, data in enumerate(train_loader, 0)
ForBatch ==
    /\ trainPc = "for_batch"
    /\ IF BatchFollows(i, train_batches)
         THEN /\ i' = i + 1
              /\ batch_ops' = <<>>
              /\ trainPc' = "zero_grad"
         ELSE /\ trainPc' = "for_epoch"
              /\ UNCHANGED <<i, batch_ops>>
    /\ UNCHANGED <<nb_epochs, minibatches, train_batches, epoch, running_loss, loss, grad,
                   outputs, printed, epoch_losses, batches_seen, complete_printed, params>>
    /\ UNCHANGED <<readerVars, loaderVars, evalVars, forwardVars>>

\* optimizer.zero_grad()
ZeroGrad ==
    /\ trainPc = "zero_grad"
    /\ grad' = 0
    /\ trainPc' = "forward"
    /\ batch_ops' = Append(batch_ops, "zero_grad")
    /\ UNCHANGED <<nb_epochs, minibatches, train_batches, epoch, i, running_loss, loss,
                   outputs, printed, epoch_losses, batches_seen, complete_printed, params>>
    /\ UNCHANGED <<readerVars, loaderVars, evalVars, forwardVars>>

\* outputs = cnn(inputs)
Forward ==
    /\ trainPc = "forward"
    /\ outputs' = params
    /\ trainPc' = "criterion"
    /\ batch_ops' = Append(batch_ops, "forward")
    /\ UNCHANGED <<nb_epochs, minibatches, train_batches, epoch, i, running_loss, loss,
                   grad, printed, epoch_losses, batches_seen, complete_printed, params>>
    /\ UNCHANGED <<readerVars, loaderVars, evalVars, forwardVars>>

\* loss = criterion(outputs, labels)
Criterion ==
    /\ trainPc = "criterion"
    /\ loss' \in LossValues
    /\ trainPc' = "backward"
    /\ batch_ops' = Append(batch_ops, "loss")
    /\ UNCHANGED <<nb_epochs, minibatches, train_batches, epoch, i, running_loss, outputs,
                   grad, printed, epoch_losses, batches_seen, complete_printed, params>>
    /\ UNCHANGED <<readerVars, loaderVars, evalVars, forwardVars>>

\* loss.backward(): the gradients are added to .grad
Backward ==
    /\ trainPc = "backward"
    /\ grad' = grad + 1
    /\ trainPc' = "step"
    /\ batch_ops' = Append(batch_ops, "backward")
    /\ UNCHANGED <<nb_epochs, minibatches, train_batches, epoch, i, running_loss, loss,
                   outputs, printed, epoch_losses, batches_seen, complete_printed, params>>
    /\ UNCHANGED <<readerVars, loaderVars, evalVars, forwardVars>>

\* Faulty variant, the update is not applied.
OptimizerStepSkipped(p) == p

\* optimizer.step(): the parameters become a new version
OptimizerStep(p) == p + 1

Step ==
    /\ trainPc = "step"
    /\ params' = OptimizerStep(params)
    /\ trainPc' = "accumulate"
    /\ batch_ops' = Append(batch_ops, "step")
    /\ UNCHANGED <<nb_epochs, minibatches, train_batches, epoch, i, running_loss, loss,
                   grad, outputs, printed, epoch_losses, batches_seen, complete_printed>>
    /\ UNCHANGED <<readerVars, loaderVars, evalVars, forwardVars>>

\* running_loss += loss.data[0]; if i%minibatches == minibatches-1: print ...; running_loss = 0.0
Accumulate ==
    /\ trainPc = "accumulate"
    /\ LET sum == FAdd(running_loss, loss) IN
         IF ReportDue(i, minibatches)
           THEN /\ printed' = Append(printed, [epoch |-> epoch + 1, batch |-> i + 1,
                                               loss |-> FDiv(sum, minibatches)])
                /\ running_loss' = 0
           ELSE /\ running_loss' = sum
                /\ UNCHANGED printed
    /\ epoch_losses' = Append(epoch_losses, loss)
    /\ batches_seen' = batches_seen + 1
    /\ trainPc' = "for_batch"
    /\ batch_ops' = Append(batch_ops, "accumulate")
    /\ UNCHANGED <<nb_epochs, minibatches, train_batches, epoch, i, loss, grad, outputs,
                   complete_printed, params>>
    /\ UNCHANGED <<readerVars, loaderVars, evalVars, forwardVars>>

\* print('Training Complete!')
Complete ==
    /\ trainPc = "complete"
    /\ complete_printed' = complete_printed + 1
    /\ trainPc' = "done"
    /\ UNCHANGED batch_ops
    /\ UNCHANGED <<nb_epochs, minibatches, train_batches, epoch, i, running_loss, loss,
                   grad, outputs, printed, epoch_losses, batches_seen, params>>
    /\ UNCHANGED <<readerVars, loaderVars, evalVars, forwardVars>>

\* len(train_loader) for a training split of n samples
LoaderLen(n) == Len(BatchSampler([k \in 1 .. n |-> k - 1], BatchSize))

IdleTrain ==
    /\ nb_epochs = 0
    /\ minibatches = 1
    /\ train_batches = 0
    /\ trainPc = "off"
    /\ epoch = -1
    /\ i = -1
    /\ running_loss = 0
    /\ loss = 0
    /\ grad = 0
    /\ outputs = 0
    /\ printed = <<>>
    /\ epoch_losses = <<>>
    /\ batches_seen = 0
    /\ complete_printed = 0
    /\ batch_ops = <<>>

InitTrain ==
    /\ nb_epochs \in 0 .. MaxEpochs
    /\ minibatches \in 1 .. MaxInterval
    /\ train_batches \in {LoaderLen(n) : n \in 1 .. MaxTrain}
    /\ trainPc = "for_epoch"
    /\ epoch = -1
    /\ i = -1
    /\ running_loss = 0
    /\ loss = 0
    /\ grad = 0
    /\ outputs = 0
    /\ printed = <<>>
    /\ epoch_losses = <<>>
    /\ batches_seen = 0
    /\ complete_printed = 0
    /\ batch_ops = <<>>
    /\ params = 0

NextTrain ==
    \/ ForEpoch
    \/ ForBatch
    \/ ZeroGrad
    \/ Forward
    \/ Criterion
    \/ Backward
    \/ Step
    \/ Accumulate
    \/ Complete

(***************************************************************************)
(* The evaluation cell ('Total Accuracy & Accuracy By Class').  A batch of *)
(* the test loader is the sequence of its true labels; test_labels is the  *)
(* split in the order the shuffled loader yields it.  The forward pass may *)
(* predict any class for any image.                                        *)
(***************************************************************************)
Classes == 0 .. NumClasses - 1

PredClasses == 0 .. MaxLabel

\* (predicted == labels).sum()
Hits(predicted, labels) == Cardinality({k \in DOMAIN labels : predicted[k] = labels[k]})

\* for i in range(4): label = labels[i]; correct_class[label] += c[i]; total_class[label] += 1
\* from index k on; labels[i] raises IndexError past the end of the batch.
RECURSIVE TallyFrom(_, _, _, _)
TallyFrom(t, predicted, labels, k) ==
    IF k >= EvalRange THEN t
    ELSE IF k >= Len(labels) THEN [t EXCEPT !.raised = "IndexError:616"]
    ELSE LET label == labels[k + 1]
             c == IF predicted[k + 1] = label THEN 1 ELSE 0 IN
         TallyFrom([t EXCEPT !.correct_class[label] = @ + c,
                             !.total_class[label] = @ + 1],
                   predicted, labels, k + 1)

\* Faulty variant, the forward pass is followed by an optimizer step.
ForwardAndStep(p) == OptimizerStep(p)

\* outputs = cnn(Variable(images)): the parameters after a forward pass alone
ForwardOnly(p) == p

\* One turn of 'for data in test_loader'.
EvalBatch ==
    /\ evalPc = "loop"
    /\ test_loader # <<>>
    /\ LET labels == Head(test_loader) IN
       \E predicted \in [DOMAIN labels -> PredClasses] :
         LET t == TallyFrom([correct_class |-> correct_class, total_class |-> total_class,
                             raised |-> ""], predicted, labels, 0) IN
           /\ params' = ForwardOnly(params)
           /\ total' = total + Len(labels)
           /\ correct' = correct + Hits(predicted, labels)
           /\ correct_class' = t.correct_class
           /\ total_class' = t.total_class
           /\ eval_raised' = t.raised
           /\ evalPc' = IF t.raised = "" THEN "loop" ELSE "raised"
           /\ all_zero' = (all_zero /\ \A k \in DOMAIN labels : predicted[k] = 0)
    /\ test_loader' = Tail(test_loader)
    /\ UNCHANGED <<test_labels, class_i, eval_printed>>
    /\ UNCHANGED <<readerVars, loaderVars, trainVars, forwardVars>>

\* '%d' % x for a float x >= 0: the integer part
Percent(num, den) == (100 * num) \div den

\* print('Accuracy on the %d test images is %d%%\n' % (total, (100*correct/total)))
OverallReport ==
    /\ evalPc = "loop"
    /\ test_loader = <<>>
    /\ IF total = 0
         THEN /\ evalPc' = "raised"
              /\ eval_raised' = "ZeroDivisionError:620"
              /\ UNCHANGED eval_printed
         ELSE /\ evalPc' = "classes"
              /\ eval_printed' = [eval_printed EXCEPT
                    !.overall = <<[total |-> total, pct |-> Percent(correct, total)]>>]
              /\ UNCHANGED eval_raised
    /\ UNCHANGED <<test_loader, test_labels, correct, total, correct_class, total_class,
                   class_i, all_zero, params>>
    /\ UNCHANGED <<readerVars, loaderVars, trainVars, forwardVars>>

\* One turn of 'for i in range(10): print(... 100*correct_class[i]/total_class[i])'.
ClassReport ==
    /\ evalPc = "classes"
    /\ IF total_class[class_i] = 0
         THEN /\ evalPc' = "raised"
              /\ eval_raised' = "ZeroDivisionError:623"
              /\ UNCHANGED <<eval_printed, class_i>>
         ELSE /\ eval_printed' = [eval_printed EXCEPT !.classes =
                    Append(@, Percent(correct_class[class_i], total_class[class_i]))]
              /\ class_i' = class_i + 1
              /\ evalPc' = IF class_i + 1 < NumClasses THEN "classes" ELSE "done"
              /\ UNCHANGED eval_raised
    /\ UNCHANGED <<test_loader, test_labels, correct, total, correct_class, total_class,
                   all_zero, params>>
    /\ UNCHANGED <<readerVars, loaderVars, trainVars, forwardVars>>

\* A split of three batches in which every class appears.
CompleteSplit == [k \in 1 .. NumClasses + 2 |-> (k - 1) % NumClasses]

TestSplits == UNION {[1 .. n -> 0 .. MaxLabel] : n \in 0 .. MaxTest} \cup {CompleteSplit}

IdleEval ==
    /\ test_loader = <<>>
    /\ test_labels = <<>>
    /\ evalPc = "off"
    /\ eval_raised = ""
    /\ correct = 0
    /\ total = 0
    /\ correct_class = [c \in Classes |-> 0]
    /\ total_class = [c \in Classes |-> 0]
    /\ class_i = 0
    /\ eval_printed = [overall |-> <<>>, classes |-> <<>>]
    /\ all_zero = TRUE

InitEval ==
    /\ test_labels \in TestSplits
    /\ test_loader = BatchSampler(test_labels, BatchSize)
    /\ evalPc = "loop"
    /\ eval_raised = ""
    /\ correct = 0
    /\ total = 0
    /\ correct_class = [c \in Classes |-> 0]
    /\ total_class = [c \in Classes |-> 0]
    /\ class_i = 0
    /\ eval_printed = [overall |-> <<>>, classes |-> <<>>]
    /\ all_zero = TRUE
    /\ params \in 0 .. MaxTrained

NextEval ==
    \/ EvalBatch
    \/ OverallReport
    \/ ClassReport


(***************************************************************************)
(* CNN.forward.  x is followed by its shape and by the values of a few of  *)
(* its units.  The weights are arbitrary: a convolution or a linear layer  *)
(* may give a unit any value; ReLU and max-pooling are computed.           *)
(***************************************************************************)
Units == 1 .. MaxUnits

Activations == -MaxActivation .. MaxActivation

\* nn.Conv2d(in, out, k): no padding, stride 1
ConvShape(s, in, out, k) ==
    IF Len(s) = 4 /\ s[2] = in /\ s[3] >= k /\ s[4] >= k
      THEN <<s[1], out, s[3] - k + 1, s[4] - k + 1>>
      ELSE <<>>

\* nn.MaxPool2d(k, k)
PoolShape(s, k) == <<s[1], s[2], s[3] \div k, s[4] \div k>>

\* x.view(x.size(0), -1)
ViewShape(s) == <<s[1], s[2] * s[3] * s[4]>>

\* nn.Linear(in, out)
LinearShape(s, in, out) == IF Len(s) = 2 /\ s[2] = in THEN <<s[1], out>> ELSE <<>>

\* what a layer with weights can compute
AnyValues(x) == [Units -> Activations]

\* F.relu
Relu(x) == {[u \in Units |-> IF x[u] < 0 THEN 0 ELSE x[u]]}

\* max-pooling: the maximum over a window that holds the unit
MaxPool(x) == {y \in [Units -> Activations] : \A u \in Units : y[u] >= x[u]}

\* One stage of forward: x = stage(x), or the RuntimeError of a shape mismatch.
Stage(from, to, name, shape, values) ==
    /\ fwdPc = from
    /\ IF shape = <<>>
         THEN /\ fwdPc' = "raised"
              /\ UNCHANGED <<fwd_shape, fwd_x, fwd_stages>>
         ELSE /\ fwdPc' = to
              /\ fwd_shape' = shape
              /\ fwd_x' \in values
              /\ fwd_stages' = Append(fwd_stages, name)
    /\ fwd_scores' = IF name = "fc2" THEN fwd_x' ELSE fwd_scores
    /\ UNCHANGED <<readerVars, loaderVars, trainVars, evalVars, params>>

\* x = self.pool1(F.relu(self.conv1(x)))
Conv1 == Stage("conv1", "relu1", "conv1",
               ConvShape(fwd_shape, 1, Conv1Out, KernelSize), AnyValues(fwd_x))

Relu1 == Stage("relu1", "pool1", "relu", fwd_shape, Relu(fwd_x))

Pool1 == Stage("pool1", "conv2", "pool1", PoolShape(fwd_shape, PoolSize), MaxPool(fwd_x))

\* x = self.pool2(F.relu(self.conv2(x)))
Conv2 == Stage("conv2", "relu2", "conv2",
               ConvShape(fwd_shape, Conv1Out, Conv2Out, KernelSize), AnyValues(fwd_x))

Relu2 == Stage("relu2", "pool2", "relu", fwd_shape, Relu(fwd_x))

Pool2 == Stage("pool2", "view", "pool2", PoolShape(fwd_shape, PoolSize), MaxPool(fwd_x))

\* x = x.view(x.size(0), -1)
View == Stage("view", "fc1", "flatten", ViewShape(fwd_shape), {fwd_x})

\* x = F.relu(self.fc1(x))
Fc1 == Stage("fc1", "relu3", "fc1", LinearShape(fwd_shape, Fc1In, Fc1Out), AnyValues(fwd_x))

Relu3 == Stage("relu3", "fc2", "relu", fwd_shape, Relu(fwd_x))

\* x = F.relu(self.fc2(x))
Fc2 == Stage("fc2", "relu4", "fc2", LinearShape(fwd_shape, Fc1Out, Fc2Out), AnyValues(fwd_x))

Relu4 == Stage("relu4", "return", "relu", fwd_shape, Relu(fwd_x))

\* return x
Return ==
    /\ fwdPc = "return"
    /\ fwdPc' = "returned"
    /\ UNCHANGED <<fwd_shape, fwd_x, fwd_stages, fwd_scores>>
    /\ UNCHANGED <<readerVars, loaderVars, trainVars, evalVars, params>>

IdleForward ==
    /\ fwdPc = "off"
    /\ fwd_shape = <<>>
    /\ fwd_x = [u \in Units |-> 0]
    /\ fwd_stages = <<>>
    /\ fwd_scores = [u \in Units |-> 0]

\* cnn(inputs): a batch of standardized 1 x 28 x 28 images
InitForward ==
    /\ fwdPc = "conv1"
    /\ \E b \in 1 .. MaxForwardBatch : fwd_shape = <<b, 1, ImageSide, ImageSide>>
    /\ fwd_x \in [Units -> Activations]
    /\ fwd_stages = <<>>
    /\ fwd_scores = [u \in Units |-> 0]

NextForward ==
    \/ Conv1 \/ Relu1 \/ Pool1
    \/ Conv2 \/ Relu2 \/ Pool2
    \/ View
    \/ Fc1 \/ Relu3
    \/ Fc2 \/ Relu4
    \/ Return

(***************************************************************************)
(* Specifications.                                                         *)
(***************************************************************************)
InitSpecReader ==
    InitReader /\ IdleLoader /\ IdleTrain /\ IdleEval /\ IdleForward /\ params = 0
SpecReader == InitSpecReader /\ [][NextReader]_vars

InitSpecLoader ==
    IdleReader /\ InitLoader /\ IdleTrain /\ IdleEval /\ IdleForward /\ params = 0
SpecLoader == InitSpecLoader /\ [][NextLoader]_vars

InitSpecTrain == IdleReader /\ IdleLoader /\ InitTrain /\ IdleEval /\ IdleForward
SpecTrain == InitSpecTrain /\ [][NextTrain]_vars

\* The loop is straight-line code of one thread: a step that can be taken is taken.
SpecTrainFair == SpecTrain /\ WF_vars(NextTrain)

InitSpecEval == IdleReader /\ IdleLoader /\ IdleTrain /\ InitEval /\ IdleForward
SpecEval == InitSpecEval /\ [][NextEval]_vars

InitSpecForward ==
    IdleReader /\ IdleLoader /\ IdleTrain /\ IdleEval /\ InitForward /\ params = 0
SpecForward == InitSpecForward /\ [][NextForward]_vars

(***************************************************************************)
(* Properties.                                                             *)
(***************************************************************************)
RECURSIVE Sum(_)
Sum(s) == IF s = <<>> THEN 0 ELSE Head(s) + Sum(Tail(s))

Count(s, v) == Cardinality({k \in DOMAIN s : s[k] = v})

SumOver(f) == Sum([k \in 1 .. NumClasses |-> f[k - 1]])

\* C1: in every epoch of the batch iterator the batches yielded partition the
\* sample indices: no index is yielded twice (at any moment, however the two
\* workers' results interleave), every index yielded is one of 0..N-1, and when
\* the iterator is exhausted every index 0..N-1 has been yielded.
C1_EpochPartitionsSamples ==
    LET flat == Concat(yielded) IN
      /\ \A a, b \in DOMAIN flat : a # b => flat[a] # flat[b]
      /\ Range(flat) \subseteq 0 .. n_samples - 1
      /\ loaderPc = "exhausted" => Range(flat) = 0 .. n_samples - 1

\* A second epoch has ended, having yielded several batches, one of which a
\* worker delivered ahead of its turn.
C1_Witness ==
    /\ loaderPc = "exhausted"
    /\ loader_epoch = 2
    /\ Len(yielded) >= 3
    /\ reordered
    /\ Len(Concat(yielded)) = n_samples

\* C2: an exhausted epoch over N samples with batch size B has yielded exactly
\* ceil(N/B) batches, every batch but the last of size B, and the last of size
\* N mod B when B does not divide N (of size B when it does).
C2_BatchCountAndSizes ==
    loaderPc = "exhausted" =>
      LET m == Len(yielded) IN
        /\ m * batch_size >= n_samples
        /\ (m - 1) * batch_size < n_samples
        /\ \A k \in 1 .. m - 1 : Len(yielded[k]) = batch_size
        /\ Len(yielded[m]) = IF n_samples % batch_size = 0 THEN batch_size
                                                            ELSE n_samples % batch_size

\* An epoch has ended with a short last batch behind a full one.
C2_Witness ==
    /\ loaderPc = "exhausted"
    /\ n_samples % batch_size # 0
    /\ Len(yielded) >= 2
    /\ Len(yielded[Len(yielded)]) < batch_size

\* C3 (as claimed): every batch the test iterator yields, a last batch shorter
\* than the batch size included, is tallied sample by sample: the loop raises
\* nothing, after each batch total_class counts the samples yielded so far by
\* true label, and the per-class tallies sum to the overall ones.
C3_EveryBatchTallied ==
    /\ eval_raised # "IndexError:616"
    /\ evalPc \in {"loop", "classes", "done"} =>
         LET seen == SubSeq(test_labels, 1, Len(test_labels) - Len(Concat(test_loader))) IN
           /\ \A c \in Classes : total_class[c] = Count(seen, c)
           /\ SumOver(total_class) = total
           /\ SumOver(correct_class) = correct

\* C4: a loss line is printed exactly at the batches whose 1-based index in the
\* epoch is a multiple of minibatches; its value is the sum of the losses of
\* the minibatches batches that end there, divided by minibatches; and
\* running_loss is zero right after the report.
C4_ReportsAtIntervals ==
    LET perEpoch == train_batches \div minibatches
        before == IF epoch < 0 THEN 0 ELSE epoch
        here == Len(epoch_losses) IN
      /\ Len(printed) = before * perEpoch + here \div minibatches
      /\ \A k \in DOMAIN printed :
           /\ perEpoch > 0
           /\ printed[k].epoch = ((k - 1) \div perEpoch) + 1
           /\ printed[k].batch = (((k - 1) % perEpoch) + 1) * minibatches
           /\ printed[k].epoch = epoch + 1 =>
                LET last == SubSeq(epoch_losses, printed[k].batch - minibatches + 1,
                                   printed[k].batch) IN
                  /\ Len(last) = minibatches
                  /\ printed[k].loss = IF NaN \in Range(last) THEN <<NaN, 1>>
                                       ELSE <<Sum(last), minibatches>>
      /\ (trainPc = "for_batch" /\ here > 0 /\ here % minibatches = 0) => running_loss = 0

\* Two epochs have reported, each leaving batches after its last report.
C4_Witness ==
    /\ trainPc = "done"
    /\ Len(printed) >= 2
    /\ train_batches % minibatches # 0
    /\ printed[Len(printed)].epoch = 2

\* C5 (as claimed): over an empty batch set the evaluator finishes with
\* total = 0 and correct = 0 and prints its overall accuracy without a
\* division by zero.
C5_EmptySplitReported ==
    (test_labels = <<>> /\ evalPc # "loop") =>
      /\ total = 0
      /\ correct = 0
      /\ eval_raised = ""
      /\ eval_printed.overall # <<>>

\* C6 (as claimed): a class that never appears among the true labels does not
\* abort the per-class report: no division by zero is raised there, and a
\* finished report holds a line for every class.
C6_AbsentClassReported ==
    /\ eval_raised # "ZeroDivisionError:623"
    /\ evalPc = "done" => Len(eval_printed.classes) = NumClasses

\* C7: training terminates, having run the loop body exactly
\* nb_epochs * len(train_loader) times whatever the losses were, and prints
\* 'Training Complete!' exactly once, after the last batch.
C7_TrainingTerminates ==
    /\ <>(trainPc = "done")
    /\ [](trainPc = "done" =>
            /\ batches_seen = nb_epochs * train_batches
            /\ complete_printed = 1)
    /\ [](trainPc # "done" => complete_printed = 0)

\* Training has ended after several batches, one of them with a NaN loss.
C7_Witness ==
    /\ trainPc = "done"
    /\ batches_seen >= 4
    /\ NaN \in Range(epoch_losses)
    /\ complete_printed = 1

\* C8: no step of the evaluation changes the classifier's parameters.
C8_EvalKeepsParams == [][params' = params]_vars

\* An evaluation of a trained classifier has run to its end over three batches.
C8_Witness ==
    /\ evalPc = "done"
    /\ total = Len(test_labels)
    /\ total > 2 * BatchSize
    /\ params > 0

\* C9: for a label stream of 8 + N bytes, load_fmnist returns exactly when the
\* image stream has 16 + N*784 bytes, and then N labels and N images of 784
\* bytes; for any other image stream length it raises and returns no arrays.
C9_ReaderLengths ==
    (lb_bytes >= LabelHeader /\ readerPc \in {"returned", "raised"}) =>
      LET n == lb_bytes - LabelHeader IN
        /\ readerPc = "returned" <=> img_bytes = ImageHeader + n * RecordSize
        /\ readerPc = "returned" => labels_len = n /\ images_shape = <<n, RecordSize>>
        /\ readerPc = "raised" => reader_raised # "" /\ images_shape = <<>>

\* Two labels and an image stream of three whole records: the reader has raised.
C9_Witness ==
    /\ readerPc = "raised"
    /\ lb_bytes = LabelHeader + 2
    /\ img_bytes = ImageHeader + 3 * RecordSize

\* C10 (as claimed): when every prediction was class 0, an evaluation of a
\* split of T >= 1 samples ends with total = T and correct = the number of
\* samples of class 0, prints that overall accuracy, and prints 100% for class 0
\* and 0% for every other class, for each class that appears in the split.
C10_AlwaysZeroClassifier ==
    (all_zero /\ test_labels # <<>> /\ evalPc \in {"done", "raised"}) =>
      LET T == Len(test_labels)
          zeros == Count(test_labels, 0) IN
        /\ total = T
        /\ correct = zeros
        /\ eval_printed.overall = <<[total |-> T, pct |-> (100 * zeros) \div T]>>
        /\ \A c \in Classes : Count(test_labels, c) > 0 =>
             /\ Len(eval_printed.classes) > c
             /\ eval_printed.classes[c + 1] = IF c = 0 THEN 100 ELSE 0

\* C11 (as claimed): forward applies conv1, ReLU, max-pool, conv2, ReLU,
\* max-pool, flatten, fc1, ReLU, fc2 in this order and nothing after fc2: what
\* it returns is the length-10 score vector that fc2 computed.
C11_ForwardStagesAndRawScores ==
    fwdPc = "returned" =>
      /\ fwd_stages = <<"conv1", "relu", "pool1", "conv2", "relu", "pool2",
                        "flatten", "fc1", "relu", "fc2">>
      /\ fwd_shape = <<fwd_shape[1], Fc2Out>>
      /\ fwd_x = fwd_scores

\* C12: every batch runs zero_grad, forward, loss, backward, step,
\* accumulate, in this order and each once; the parameters are updated exactly
\* once per batch, so the forward pass of a batch reads the parameters left by
\* the update of the batch before it; and the gradient that step applies holds
\* the backward pass of this batch alone.
C12_StrictBatchSequence ==
    LET order == <<"zero_grad", "forward", "loss", "backward", "step", "accumulate">> IN
      /\ Len(batch_ops) <= Len(order)
      /\ batch_ops = SubSeq(order, 1, Len(batch_ops))
      /\ (trainPc \in {"for_batch", "for_epoch", "complete", "done"} /\ i >= 0) =>
            batch_ops = order
      /\ params = batches_seen + (IF trainPc = "accumulate" THEN 1 ELSE 0)
      /\ trainPc \in {"criterion", "backward", "step"} =>
            outputs = batches_seen /\ outputs = params
      /\ trainPc \in {"forward", "criterion", "backward"} => grad = 0
      /\ trainPc \in {"step", "accumulate"} => grad = 1

\* The loop is between two batches, the second of the epoch just completed.
C12_Witness ==
    /\ trainPc = "for_batch"
    /\ i = 1
    /\ batches_seen >= 2
    /\ Len(batch_ops) = 6
    /\ params = batches_seen
====
